---- MODULE Spec2Model ----
(***************************************************************************)
(* Model of get_bitwig_device_uuids.py: the operator-driven collector loop *)
(* that reads one clipboard value per catalog item and writes the result   *)
(* mapping to bitwig_device_uuids.json.                                    *)
(*                                                                         *)
(* Strings are sequences of one-character strings, so that lower(),        *)
(* strip() and len() are computed rather than assumed.  A dict is the      *)
(* sequence of its <<key, value>> items in insertion order.                *)
(***************************************************************************)
EXTENDS Integers, Sequences, FiniteSets, TLC

VARIABLES
    pc,              \* position of the process in main()
    idx,             \* number of catalog items the for loop has taken
    user_input,      \* main.user_input (line 61)
    device_uuids,    \* main.device_uuids (line 53)
    out,             \* the status lines printed to the console by this run
    clipboard_reads, \* the pyperclip.paste() calls of this run and their results
    opens,           \* number of open(output_file, 'w') calls of this run
    file,            \* bitwig_device_uuids.json on disk
    prev_file        \* bitwig_device_uuids.json as this run found it

vars == <<pc, idx, user_input, device_uuids, out, clipboard_reads, opens,
          file, prev_file>>

-----------------------------------------------------------------------------
(* Bounds and program constants *)

\* Number of leading catalog entries the model iterates over.
NumDevices == 2

\* The length a clipboard value must have to be recorded (line 70).
UuidLen == 36

BITWIG_DEVICES ==
    << "EQ+", "Polysynth", "Phase-4", "FM-4", "Sampler", "Delay+",
       "Compressor+", "Limiter", "Reverb", "Chorus", "Flanger", "Phaser",
       "Distortion", "Filter+", "Tool", "Poly Grid", "FX Grid", "Note Grid",
       "Polymer", "Drum Machine", "Audio Receiver", "Note Receiver",
       "HW Instrument", "Clip Launcher" >>

Min(a, b) == IF a < b THEN a ELSE b

\* the entries "for device_name in BITWIG_DEVICES" iterates over (line 55)
Catalog == SubSeq(BITWIG_DEVICES, 1, Min(NumDevices, Len(BITWIG_DEVICES)))

output_file == "bitwig_device_uuids.json"

-----------------------------------------------------------------------------
(* str.lower(), str.strip(), len() *)

Whitespace == {" ", "\t", "\n", "\r"}

LowerChar(c) ==
    CASE c = "S" -> "s"
      [] c = "G" -> "g"
      [] c = "O" -> "o"
      [] c = "A" -> "a"
      [] OTHER   -> c

Lower(s) == [i \in 1..Len(s) |-> LowerChar(s[i])]

RECURSIVE LStrip(_)
LStrip(s) ==
    IF s # <<>> /\ Head(s) \in Whitespace THEN LStrip(Tail(s)) ELSE s

RECURSIVE RStrip(_)
RStrip(s) ==
    IF s # <<>> /\ s[Len(s)] \in Whitespace
    THEN RStrip(SubSeq(s, 1, Len(s) - 1))
    ELSE s

\* (variant) the text is used untrimmed
NoStrip(s) == s

Strip(s) == RStrip(LStrip(s))

-----------------------------------------------------------------------------
(* The inputs the environment supplies *)

Uuid(c) == [i \in 1..UuidLen |-> IF i \in {9, 14, 19, 24} THEN "-" ELSE c]

UuidA == Uuid("a")
UuidB == Uuid("b")

\* Lines the operator may type at the per-item prompt.
InputLines ==
    { <<"s">>, <<"S">>, <<" ", "s", " ">>, <<"S", "\t">>, <<>> }

\* Texts the clipboard may hold when pyperclip.paste() succeeds.
ClipboardTexts ==
    { UuidA,                                         \* 36 raw, 36 trimmed
      <<" ">> \o UuidB \o <<"\n">>,                  \* 38 raw, 36 trimmed
      <<" ">> \o SubSeq(UuidA, 1, 34) \o <<"\n">>,   \* 36 raw, 34 trimmed
      <<" ", "\t">> }                                \* trims to empty

-----------------------------------------------------------------------------
(* dict and json *)

DictKeys(d) == {d[i][1] : i \in 1..Len(d)}

\* the position of key k in d
DictGet(d, k) == (CHOOSE i \in 1..Len(d) : d[i][1] = k)

\* (variant) the assignment replaces the whole mapping
DictSetClear(d, k, v) == << <<k, v>> >>

\* d[k] = v
DictSet(d, k, v) ==
    IF k \in DictKeys(d)
    THEN [d EXCEPT ![DictGet(d, k)] = <<k, v>>]
    ELSE Append(d, <<k, v>>)

\* (variant) the first item is left out of the text
JsonDumpsDropFirst(d) ==
    << <<"{">> >> \o (IF d = <<>> THEN <<>> ELSE Tail(d)) \o << <<"}">> >>

\* json.dumps(d, indent=2): the token stream of the serialised object
JsonDumps(d) == << <<"{">> >> \o d \o << <<"}">> >>

-----------------------------------------------------------------------------
(* Files *)

NoFile == [exists |-> FALSE, content |-> <<>>]

FileWith(t) == [exists |-> TRUE, content |-> t]

Line(kind, dev, text) == [kind |-> kind, dev |-> dev, text |-> text]

\* one call of pyperclip.paste(): the item, whether it returned, the raw text
Read(dev, ok, text) == [dev |-> dev, ok |-> ok, text |-> text]

-----------------------------------------------------------------------------
(* main() *)

Init ==
    /\ pc = "gate"
    /\ idx = 0
    /\ user_input = <<>>
    /\ device_uuids = <<>>
    /\ out = <<>>
    /\ clipboard_reads = <<>>
    /\ opens = 0
    /\ file = NoFile
    /\ prev_file = NoFile

device_name == Catalog[idx]

\* (variant) the comparison is case-sensitive
IsSkipSensitive(line) == line = <<"s">>

\* user_input.lower() == 's'  (line 63)
IsSkip(line) == Lower(line) = <<"s">>

\* (variant) the length test is missing
IsNonEmpty(uuid) == uuid # <<>>

\* uuid and len(uuid) == 36  (line 70)
IsValidUuid(uuid) == uuid # <<>> /\ Len(uuid) = UuidLen

\* lines 50-53: input() returns and the result mapping is created empty
PressEnter ==
    /\ pc = "gate"
    /\ pc' = "for"
    /\ device_uuids' = <<>>
    /\ UNCHANGED <<idx, user_input, out, clipboard_reads, opens, file, prev_file>>

\* line 51: input() raises (EOFError on a closed stdin); nothing catches it
PressEnterFails ==
    /\ pc = "gate"
    /\ pc' = "crashed"
    /\ UNCHANGED <<idx, user_input, device_uuids, out, clipboard_reads, opens,
                   file, prev_file>>

\* (variant) the loop steps over an entry
ForNextSkipsOne ==
    /\ pc = "for"
    /\ idx < Len(Catalog)
    /\ idx' = Min(idx + 2, Len(Catalog))
    /\ out' = Append(out, Line("device", Catalog[idx'], <<>>))
    /\ pc' = "input"
    /\ UNCHANGED <<user_input, device_uuids, clipboard_reads, opens, file, prev_file>>

\* lines 55-59: the loop takes the next catalog entry and prints its prompt
ForNext ==
    /\ pc = "for"
    /\ idx < Len(Catalog)
    /\ idx' = idx + 1
    /\ out' = Append(out, Line("device", Catalog[idx'], <<>>))
    /\ pc' = "input"
    /\ UNCHANGED <<user_input, device_uuids, clipboard_reads, opens, file, prev_file>>

\* (variant) the loop may end after any item
ForEndEarly ==
    /\ pc = "for"
    /\ idx >= 1
    /\ pc' = "open"
    /\ UNCHANGED <<idx, user_input, device_uuids, out, clipboard_reads, opens,
                   file, prev_file>>

\* line 55 exhausted: control reaches line 79
ForEnd ==
    /\ pc = "for"
    /\ idx = Len(Catalog)
    /\ pc' = "open"
    /\ UNCHANGED <<idx, user_input, device_uuids, out, clipboard_reads, opens,
                   file, prev_file>>

\* lines 61-65: read a line; on the skip token print "Skipped" and continue
ReadInput ==
    /\ pc = "input"
    /\ \E line \in InputLines :
        /\ user_input' = line
        /\ IF IsSkip(line)
           THEN /\ out' = Append(out, Line("skipped", device_name, <<>>))
                /\ pc' = "for"
           ELSE /\ out' = out
                /\ pc' = "paste"
    /\ UNCHANGED <<idx, device_uuids, clipboard_reads, opens, file, prev_file>>

\* line 61: input("   > ") raises; nothing catches it
ReadInputFails ==
    /\ pc = "input"
    /\ pc' = "crashed"
    /\ UNCHANGED <<idx, user_input, device_uuids, out, clipboard_reads, opens,
                   file, prev_file>>

\* lines 68-74: pyperclip.paste() returns; validate, record or report
Paste ==
    /\ pc = "paste"
    /\ \E text \in ClipboardTexts :
        LET uuid == Strip(text) IN
        /\ clipboard_reads' = Append(clipboard_reads, Read(device_name, TRUE, text))
        /\ IF IsValidUuid(uuid)
           THEN /\ device_uuids' = DictSet(device_uuids, device_name, uuid)
                /\ out' = Append(out, Line("captured", device_name, uuid))
           ELSE /\ device_uuids' = device_uuids
                /\ out' = Append(out, Line("invalid", device_name, uuid))
    /\ pc' = "for"
    /\ UNCHANGED <<idx, user_input, opens, file, prev_file>>

\* (variant) a failed read records an empty value
PasteErrorRecords ==
    /\ pc = "paste"
    /\ clipboard_reads' = Append(clipboard_reads, Read(device_name, FALSE, <<>>))
    /\ device_uuids' = DictSet(device_uuids, device_name, <<>>)
    /\ out' = Append(out, Line("error", device_name, <<>>))
    /\ pc' = "for"
    /\ UNCHANGED <<idx, user_input, opens, file, prev_file>>

\* (variant) a failed read is not caught
PasteErrorPropagates ==
    /\ pc = "paste"
    /\ clipboard_reads' = Append(clipboard_reads, Read(device_name, FALSE, <<>>))
    /\ pc' = "crashed"
    /\ UNCHANGED <<idx, user_input, device_uuids, out, opens, file, prev_file>>

\* lines 69, 75-76: pyperclip.paste() raises an Exception; it is printed
PasteError ==
    /\ pc = "paste"
    /\ clipboard_reads' = Append(clipboard_reads, Read(device_name, FALSE, <<>>))
    /\ out' = Append(out, Line("error", device_name, <<>>))
    /\ pc' = "for"
    /\ UNCHANGED <<idx, user_input, device_uuids, opens, file, prev_file>>

\* (variant) the file is opened without truncation
OpenFileAppend ==
    /\ pc = "open"
    /\ opens' = opens + 1
    /\ file' = FileWith(file.content)
    /\ pc' = "dump"
    /\ UNCHANGED <<idx, user_input, device_uuids, out, clipboard_reads, prev_file>>

\* line 80: open(output_file, 'w') creates or truncates the file
OpenFile ==
    /\ pc = "open"
    /\ opens' = opens + 1
    /\ file' = FileWith(<<>>)
    /\ pc' = "dump"
    /\ UNCHANGED <<idx, user_input, device_uuids, out, clipboard_reads, prev_file>>

\* line 80: open() raises (OSError); nothing catches it
OpenFileFails ==
    /\ pc = "open"
    /\ opens' = opens + 1
    /\ pc' = "crashed"
    /\ UNCHANGED <<idx, user_input, device_uuids, out, clipboard_reads, file,
                   prev_file>>

\* lines 80-81: json.dump writes the whole mapping and the file is closed
Dump ==
    /\ pc = "dump"
    /\ file' = FileWith(file.content \o JsonDumps(device_uuids))
    /\ pc' = "report"
    /\ UNCHANGED <<idx, user_input, device_uuids, out, clipboard_reads, opens,
                   prev_file>>

\* line 81: a write raises (OSError) after some part of the text was written
DumpFails ==
    /\ pc = "dump"
    /\ \E n \in 0..(Len(JsonDumps(device_uuids)) - 1) :
        file' = FileWith(file.content \o SubSeq(JsonDumps(device_uuids), 1, n))
    /\ pc' = "crashed"
    /\ UNCHANGED <<idx, user_input, device_uuids, out, clipboard_reads, opens,
                   prev_file>>

\* lines 83-84: print the count and the mapping again
Report ==
    /\ pc = "report"
    /\ out' = out \o << Line("saved", output_file, <<Len(device_uuids)>>),
                        Line("json", output_file, JsonDumps(device_uuids)) >>
    /\ pc' = "done"
    /\ UNCHANGED <<idx, user_input, device_uuids, clipboard_reads, opens, file,
                   prev_file>>

Running == {"gate", "for", "input", "paste", "open", "dump", "report"}

\* the operator or the environment terminates the process (not handled)
Kill ==
    /\ pc \in Running
    /\ pc' = "killed"
    /\ UNCHANGED <<idx, user_input, device_uuids, out, clipboard_reads, opens,
                   file, prev_file>>

\* lines 86-87: the script is run again; only the file survives
Rerun ==
    /\ pc \in {"done", "crashed", "killed"}
    /\ pc' = "gate"
    /\ idx' = 0
    /\ user_input' = <<>>
    /\ device_uuids' = <<>>
    /\ out' = <<>>
    /\ clipboard_reads' = <<>>
    /\ opens' = 0
    /\ prev_file' = file
    /\ UNCHANGED file

Next ==
    \/ PressEnter
    \/ PressEnterFails
    \/ ForNext
    \/ ForEnd
    \/ ReadInput
    \/ ReadInputFails
    \/ Paste
    \/ PasteError
    \/ OpenFile
    \/ OpenFileFails
    \/ Dump
    \/ DumpFails
    \/ Report
    \/ Kill
    \/ Rerun

Spec == Init /\ [][Next]_vars

-----------------------------------------------------------------------------
(* Vocabulary of the properties *)

\* The text between the first and the last non-whitespace character.
TrimmedOf(t) ==
    IF \A i \in 1..Len(t) : t[i] \in Whitespace THEN <<>>
    ELSE SubSeq(t,
                CHOOSE i \in 1..Len(t) :
                    t[i] \notin Whitespace
                    /\ \A j \in 1..(i - 1) : t[j] \in Whitespace,
                CHOOSE i \in 1..Len(t) :
                    t[i] \notin Whitespace
                    /\ \A j \in (i + 1)..Len(t) : t[j] \in Whitespace)

\* A text is an object text when it is "{", items, "}".
IsObjectText(t) ==
    /\ Len(t) >= 2
    /\ t[1] = <<"{">>
    /\ t[Len(t)] = <<"}">>
    /\ \A i \in 2..(Len(t) - 1) : Len(t[i]) = 2

RECURSIVE DictFromItems(_, _)
DictFromItems(items, d) ==
    IF items = <<>> THEN d
    ELSE DictFromItems(Tail(items), DictSet(d, Head(items)[1], Head(items)[2]))

\* json.loads(t) for a well-formed text; later duplicates of a key win
JsonLoads(t) == DictFromItems(SubSeq(t, 2, Len(t) - 1), <<>>)

IsPrefix(s, t) == Len(s) <= Len(t) /\ s = SubSeq(t, 1, Len(s))

Last(s) == s[Len(s)]

CatalogNames == {Catalog[i] : i \in 1..Len(Catalog)}

OutcomeKinds == {"skipped", "captured", "invalid", "error"}

DevsOf(lines) == [i \in 1..Len(lines) |-> lines[i].dev]

\* The items prompted for so far, and the items that reached an outcome.
Visited == DevsOf(SelectSeq(out, LAMBDA l : l.kind = "device"))
Outcomes == SelectSeq(out, LAMBDA l : l.kind \in OutcomeKinds)

\* The captures of this run, in the order they were read: item -> trimmed
\* text, for the clipboard reads that returned a text of trimmed length 36.
RECURSIVE CapturesOf(_)
CapturesOf(reads) ==
    IF reads = <<>> THEN <<>>
    ELSE (IF Head(reads).ok /\ Len(TrimmedOf(Head(reads).text)) = UuidLen
          THEN << <<Head(reads).dev, TrimmedOf(Head(reads).text)>> >>
          ELSE <<>>) \o CapturesOf(Tail(reads))

Captures == CapturesOf(clipboard_reads)

\* obj, parsed from a text of n items, has no repeated key, has catalog names
\* as keys and 36-character values, and holds exactly this run's captures.
ParsedIsCaptures(obj, n) ==
    /\ Len(obj) = n
    /\ Cardinality(DictKeys(obj)) = n
    /\ \A i \in 1..Len(obj) :
           obj[i][1] \in CatalogNames /\ Len(obj[i][2]) = UuidLen
    /\ obj = Captures

ReadDevs == {clipboard_reads[i].dev : i \in 1..Len(clipboard_reads)}

\* The current item has just reached its outcome.
ItemSettled == pc = "for" /\ idx >= 1

\* This step is a return (or a raise) of pyperclip.paste().
PasteStep == pc = "paste" /\ Len(clipboard_reads') = Len(clipboard_reads) + 1

-----------------------------------------------------------------------------
(* C1 *)

\* C1 as stated: an input line equal to "s" after trimming and lowering
\* leads to no clipboard read and no entry for the item.
C1_TrimmedSkipTokenSkips ==
    (ItemSettled /\ Lower(TrimmedOf(user_input)) = <<"s">>) =>
        /\ device_name \notin ReadDevs
        /\ device_name \notin DictKeys(device_uuids)
        /\ Last(out) = Line("skipped", device_name, <<>>)

\* C1 (amended): an input line equal to "s" ignoring case, compared without
\* trimming, leads to no clipboard read and no entry for the item and the
\* loop continues; any other line leads to a clipboard read.
C1_ExactSkipTokenSkips ==
    ItemSettled =>
        IF Lower(user_input) = <<"s">>
        THEN /\ device_name \notin ReadDevs
             /\ device_name \notin DictKeys(device_uuids)
             /\ Last(out) = Line("skipped", device_name, <<>>)
        ELSE /\ device_name \in ReadDevs
             /\ Last(out).kind # "skipped"

C1_Witness ==
    /\ ItemSettled
    /\ user_input = <<"S">>
    /\ Last(out).kind = "skipped"
    /\ idx = 2
    /\ clipboard_reads # <<>>

-----------------------------------------------------------------------------
(* C2 *)

-----------------------------------------------------------------------------
(* C3 *)

\* C3: when the clipboard read returns a text whose trimmed length is 36,
\* exactly one entry, current item -> trimmed text, is added to the mapping.
C3_ValidCaptureAddsOneEntry ==
    [][(PasteStep /\ Last(clipboard_reads').ok
          /\ Len(TrimmedOf(Last(clipboard_reads').text)) = UuidLen) =>
        /\ device_uuids' =
              Append(device_uuids,
                     <<device_name, TrimmedOf(Last(clipboard_reads').text)>>)
        /\ device_name \notin DictKeys(device_uuids)
      ]_vars

C3_Witness ==
    /\ ItemSettled
    /\ idx = 2
    /\ clipboard_reads # <<>>
    /\ Len(device_uuids) = 2
    /\ Len(Last(clipboard_reads).text) = UuidLen + 2
    /\ Last(device_uuids) = <<device_name, UuidB>>

-----------------------------------------------------------------------------
(* C4 *)

\* C4: when the clipboard read returns a text whose trimmed length is not 36
\* (the empty text included), the mapping is unchanged and an invalid-format
\* line with the trimmed text is printed.
C4_InvalidLengthRecordsNothing ==
    [][(PasteStep /\ Last(clipboard_reads').ok
          /\ Len(TrimmedOf(Last(clipboard_reads').text)) # UuidLen) =>
        /\ device_uuids' = device_uuids
        /\ out' = Append(out, Line("invalid", device_name,
                                   TrimmedOf(Last(clipboard_reads').text)))
      ]_vars

C4_Witness ==
    /\ ItemSettled
    /\ clipboard_reads # <<>>
    /\ Last(clipboard_reads).ok
    /\ Len(Last(clipboard_reads).text) = UuidLen
    /\ Last(out).kind = "invalid"
    /\ Len(Last(out).text) = UuidLen - 2
    /\ \E i \in 1..Len(out) : out[i].kind = "invalid" /\ out[i].text = <<>>

-----------------------------------------------------------------------------
(* C5 *)

\* C5: when the clipboard read raises, the failure is printed, the mapping
\* is unchanged and control is back at the head of the loop with the same
\* item count, so the remaining items and the final write follow.
C5_ClipboardErrorContinues ==
    [][(PasteStep /\ ~Last(clipboard_reads').ok) =>
        /\ device_uuids' = device_uuids
        /\ out' = Append(out, Line("error", device_name, <<>>))
        /\ pc' = "for"
        /\ idx' = idx
        /\ file' = file
      ]_vars

C5_Witness ==
    /\ pc = "done"
    /\ clipboard_reads # <<>>
    /\ ~clipboard_reads[1].ok
    /\ Len(Outcomes) = Len(Catalog)
    /\ Outcomes[1].kind = "error"
    /\ file = FileWith(JsonDumps(device_uuids))

-----------------------------------------------------------------------------
(* C6 *)

\* C6: once the file is written, it parses as an object without repeated
\* keys; its keys are catalog names; a name is a key exactly when this run
\* read a text of trimmed length 36 for it, and its value is that trimmed
\* text.
C6_FileHoldsExactlyTheCaptures ==
    pc \in {"report", "done"} =>
        /\ file.exists
        /\ IsObjectText(file.content)
        /\ ParsedIsCaptures(JsonLoads(file.content), Len(file.content) - 2)

C6_Witness ==
    /\ pc = "done"
    /\ Len(Captures) = 1
    /\ Len(clipboard_reads) = 2
    /\ Len(file.content) = 3

-----------------------------------------------------------------------------
(* C7 *)

\* C7 as stated: the process never ends on an error.
C7_NoErrorIsFatal == pc # "crashed"

\* C7 (amended): a clipboard error never ends the process; the process ends
\* on an error only when a console read (start gate or item prompt) or the
\* open/write of the output file raises; a run that finishes has gone through
\* every item, the write and the report.
C7_OnlyConsoleAndFileErrorsAreFatal ==
    /\ [][(pc' = "crashed" /\ pc # "crashed") =>
            pc \in {"gate", "input", "open", "dump"}]_vars
    /\ [](pc = "done" =>
            /\ DevsOf(Outcomes) = Catalog
            /\ opens = 1
            /\ Last(out).kind = "json")

C7_Witness ==
    /\ pc = "crashed"
    /\ idx = 2
    /\ clipboard_reads # <<>>
    /\ ~clipboard_reads[1].ok
    /\ Len(Outcomes) = 1

-----------------------------------------------------------------------------
(* C8 *)

\* C8: after a completed run the file is the serialisation of this run's
\* mapping, whose keys are all captures of this run, whatever the file held
\* before.
C8_FileReflectsOnlyThisRun ==
    pc \in {"report", "done"} =>
        /\ IsObjectText(file.content)
        /\ JsonLoads(file.content) = device_uuids
        /\ Len(file.content) = Len(device_uuids) + 2
        /\ DictKeys(device_uuids) \subseteq DictKeys(Captures)

C8_Witness ==
    /\ pc = "done"
    /\ IsObjectText(prev_file.content)
    /\ JsonLoads(prev_file.content) = << <<Catalog[1], UuidA>>, <<Catalog[2], UuidA>> >>
    /\ JsonLoads(file.content) = << <<Catalog[2], UuidB>> >>

-----------------------------------------------------------------------------
(* C9 *)

\* C9: a run opens the output file at most once and only after every catalog
\* item has reached an outcome; until then the file is as the run found it;
\* a finished run has opened it once.
C9_FileWrittenOnceAfterLoop ==
    /\ opens <= 1
    /\ opens = 0 => file = prev_file
    /\ opens = 1 => DevsOf(Outcomes) = Catalog
    /\ pc \in {"gate", "for", "input", "paste", "open"} => opens = 0
    /\ pc \in {"dump", "report", "done"} => opens = 1

C9_Witness ==
    /\ pc = "killed"
    /\ idx = Len(Catalog)
    /\ device_uuids # <<>>
    /\ opens = 0
    /\ prev_file.exists
    /\ file = prev_file
    /\ JsonLoads(file.content) # device_uuids

-----------------------------------------------------------------------------
(* C10 *)

\* C10: within a run the mapping only grows, by at most the entry of the
\* current item, and the printed outcomes are never taken back.
C10_MappingOnlyGrows ==
    [][pc' # "gate" =>
        /\ IsPrefix(device_uuids, device_uuids')
        /\ Len(device_uuids') <= Len(device_uuids) + 1
        /\ Len(device_uuids') = Len(device_uuids) + 1 =>
               /\ pc = "paste"
               /\ Last(device_uuids')[1] = device_name
               /\ device_name \notin DictKeys(device_uuids)
        /\ IsPrefix(out, out')
      ]_vars

C10_Witness ==
    /\ ItemSettled
    /\ idx = 2
    /\ device_uuids = << <<Catalog[1], UuidB>> >>
    /\ Last(out).kind \in {"invalid", "error"}

====
